---- MODULE Spec2Model ----
(***************************************************************************)
(* Model of the incident-reporting backend (server/src/index.ts), the      *)
(* public form's submit flow (src/components/ReportForm.tsx) and the       *)
(* reports table (supabase migrations).                                     *)
(*                                                                         *)
(* Strings are TLA+ strings, processed character by character.  JSON        *)
(* values are tagged records; a JavaScript object is a function from its   *)
(* keys to its values, and undefined is the absence of a key.             *)
(***************************************************************************)
EXTENDS Integers, Sequences, FiniteSets, TLC

(***************************************************************************)
(* Characters and strings                                                  *)
(***************************************************************************)
\* The character of s at position i, "" beyond either end.
Ch(s, i) == IF i >= 1 /\ i <= Len(s) THEN SubSeq(s, i, i) ELSE ""

\* String.prototype.trim: the white space it strips at both ends.
IsTrimSpace(c) == c \in {" ", "\t", "\n", "\r", "\f"}

RECURSIVE TrimLeft(_)
TrimLeft(s) == IF Len(s) > 0 /\ IsTrimSpace(Ch(s, 1)) THEN TrimLeft(Tail(s)) ELSE s

RECURSIVE TrimRight(_)
TrimRight(s) ==
    IF Len(s) > 0 /\ IsTrimSpace(Ch(s, Len(s)))
    THEN TrimRight(SubSeq(s, 1, Len(s) - 1))
    ELSE s

Trim(s) == TrimRight(TrimLeft(s))

\* String.prototype.toLowerCase on the letters the model's texts use.
UpperToLower ==
    [c \in {"A","B","C","D","E","F","G","H","I","J","K","L","M","N","O","P",
            "Q","R","S","T","U","V","W","X","Y","Z"} |->
        CASE c = "A" -> "a" [] c = "B" -> "b" [] c = "C" -> "c" [] c = "D" -> "d"
          [] c = "E" -> "e" [] c = "F" -> "f" [] c = "G" -> "g" [] c = "H" -> "h"
          [] c = "I" -> "i" [] c = "J" -> "j" [] c = "K" -> "k" [] c = "L" -> "l"
          [] c = "M" -> "m" [] c = "N" -> "n" [] c = "O" -> "o" [] c = "P" -> "p"
          [] c = "Q" -> "q" [] c = "R" -> "r" [] c = "S" -> "s" [] c = "T" -> "t"
          [] c = "U" -> "u" [] c = "V" -> "v" [] c = "W" -> "w" [] c = "X" -> "x"
          [] c = "Y" -> "y" [] c = "Z" -> "z"]

\* toLowerCase left out.
ToLowerCase_Omitted(s) == s

RECURSIVE ToLowerCase(_)
ToLowerCase(s) ==
    IF Len(s) = 0 THEN ""
    ELSE LET c == Ch(s, 1)
         IN (IF c \in DOMAIN UpperToLower THEN UpperToLower[c] ELSE c)
                \o ToLowerCase(Tail(s))

(***************************************************************************)
(* JSON values and JSON.parse                                              *)
(***************************************************************************)
JNull    == [t |-> "null"]
JBool(b) == [t |-> "boolean", b |-> b]
JNum(n)  == [t |-> "number", n |-> n]
JStr(s)  == [t |-> "string", s |-> s]
JArr(a)  == [t |-> "array", a |-> a]
JObj(m)  == [t |-> "object", m |-> m]

\* undefined, the value of a property that is absent.
Undefined == [t |-> "undefined"]

\* Property access value.key; the third JavaScript outcome, a TypeError on
\* null or undefined, is decided by the callers.
GetProp(value, key) ==
    IF value.t = "object" /\ key \in DOMAIN value.m THEN value.m[key] ELSE Undefined

\* JavaScript truthiness of a JSON value.
Truthy(value) ==
    CASE value.t = "undefined" -> FALSE
      [] value.t = "null"      -> FALSE
      [] value.t = "boolean"   -> value.b
      [] value.t = "number"    -> value.n # 0
      [] value.t = "string"    -> value.s # ""
      [] OTHER                 -> TRUE

IsJsonWs(c) == c \in {" ", "\t", "\n", "\r"}
IsDigit(c)  == c \in {"0","1","2","3","4","5","6","7","8","9"}
DigitVal(c) ==
    CASE c = "0" -> 0 [] c = "1" -> 1 [] c = "2" -> 2 [] c = "3" -> 3 [] c = "4" -> 4
      [] c = "5" -> 5 [] c = "6" -> 6 [] c = "7" -> 7 [] c = "8" -> 8 [] c = "9" -> 9

ParseFail == [ok |-> FALSE]
ParseOk(v, i) == [ok |-> TRUE, v |-> v, i |-> i]

RECURSIVE SkipWs(_, _)
SkipWs(s, i) == IF IsJsonWs(Ch(s, i)) THEN SkipWs(s, i + 1) ELSE i

\* The characters of a string literal after its opening quote.
RECURSIVE ParseString(_, _, _)
ParseString(s, i, acc) ==
    LET c == Ch(s, i) IN
    IF c = "" \/ c \in {"\n", "\t", "\r", "\f"} THEN ParseFail
    ELSE IF c = "\"" THEN ParseOk(JStr(acc), i + 1)
    ELSE IF c = "\\" THEN
        LET e == Ch(s, i + 1) IN
        IF e \in {"\"", "\\", "/"} THEN ParseString(s, i + 2, acc \o e)
        ELSE IF e = "n" THEN ParseString(s, i + 2, acc \o "\n")
        ELSE IF e = "t" THEN ParseString(s, i + 2, acc \o "\t")
        ELSE ParseFail
    ELSE ParseString(s, i + 1, acc \o c)

RECURSIVE ParseDigits(_, _, _)
ParseDigits(s, i, acc) ==
    IF IsDigit(Ch(s, i)) THEN ParseDigits(s, i + 1, 10 * acc + DigitVal(Ch(s, i)))
    ELSE ParseOk(JNum(acc), i)

\* An integer literal: an optional minus, then 0 or a digit string without a
\* leading zero.
ParseNumber(s, i) ==
    LET neg == Ch(s, i) = "-"
        j   == IF neg THEN i + 1 ELSE i
    IN  IF ~IsDigit(Ch(s, j)) THEN ParseFail
        ELSE IF Ch(s, j) = "0" /\ IsDigit(Ch(s, j + 1)) THEN ParseFail
        ELSE LET r == ParseDigits(s, j, 0)
             IN  IF neg THEN ParseOk(JNum(0 - r.v.n), r.i) ELSE r

StartsWith(s, i, w) == i + Len(w) - 1 <= Len(s) /\ SubSeq(s, i, i + Len(w) - 1) = w

RECURSIVE ParseValue(_, _)
RECURSIVE ParseMembers(_, _, _)
RECURSIVE ParseElements(_, _, _)

\* One JSON value starting at the first non-blank character at or after i.
ParseValue(s, i0) ==
    LET i == SkipWs(s, i0)
        c == Ch(s, i)
    IN  CASE c = "\"" -> ParseString(s, i + 1, "")
          [] c = "{"  -> LET j == SkipWs(s, i + 1)
                         IN  IF Ch(s, j) = "}" THEN ParseOk(JObj(<<>>), j + 1)
                             ELSE ParseMembers(s, j, <<>>)
          [] c = "["  -> LET j == SkipWs(s, i + 1)
                         IN  IF Ch(s, j) = "]" THEN ParseOk(JArr(<<>>), j + 1)
                             ELSE ParseElements(s, j, <<>>)
          [] c = "-" \/ IsDigit(c) -> ParseNumber(s, i)
          [] StartsWith(s, i, "true")  -> ParseOk(JBool(TRUE), i + 4)
          [] StartsWith(s, i, "false") -> ParseOk(JBool(FALSE), i + 5)
          [] StartsWith(s, i, "null")  -> ParseOk(JNull, i + 4)
          [] OTHER -> ParseFail

\* "key": value pairs up to the closing brace; a repeated key keeps its last
\* value.
ParseMembers(s, i0, m) ==
    LET i == SkipWs(s, i0) IN
    IF Ch(s, i) # "\"" THEN ParseFail
    ELSE LET k == ParseString(s, i + 1, "") IN
         IF ~k.ok THEN ParseFail
         ELSE LET j == SkipWs(s, k.i) IN
              IF Ch(s, j) # ":" THEN ParseFail
              ELSE LET v == ParseValue(s, j + 1) IN
                   IF ~v.ok THEN ParseFail
                   ELSE LET n  == SkipWs(s, v.i)
                            m2 == (k.v.s :> v.v) @@ m
                        IN  IF Ch(s, n) = "}" THEN ParseOk(JObj(m2), n + 1)
                            ELSE IF Ch(s, n) = "," THEN ParseMembers(s, n + 1, m2)
                            ELSE ParseFail

ParseElements(s, i0, a) ==
    LET v == ParseValue(s, i0) IN
    IF ~v.ok THEN ParseFail
    ELSE LET n  == SkipWs(s, v.i)
             a2 == Append(a, v.v)
         IN  IF Ch(s, n) = "]" THEN ParseOk(JArr(a2), n + 1)
             ELSE IF Ch(s, n) = "," THEN ParseElements(s, n + 1, a2)
             ELSE ParseFail

\* JSON.parse(s): the value, or a SyntaxError (ok = FALSE) when s is not
\* exactly one JSON value surrounded by optional white space.
JsonParse(s) ==
    LET r == ParseValue(s, 1) IN
    IF r.ok /\ SkipWs(s, r.i) = Len(s) + 1 THEN [ok |-> TRUE, v |-> r.v] ELSE ParseFail

(***************************************************************************)
(* verifyReport (server/src/index.ts)                                      *)
(***************************************************************************)
Severities == {"low", "medium", "high"}

\* What model.generateContent / response.text() can do: reject, or return a
\* text.
Rejects == [kind |-> "reject"]
Returns(text) == [kind |-> "text", text |-> text]

Raised(message) == [raised |-> TRUE, message |-> message]
Returned(assessment, severity) ==
    [raised |-> FALSE, assessment |-> assessment, severity |-> severity]

\* The inner try block without the check of the severity against the list.
ParseAssessment_NoSeverityCheck(text) ==
    LET parsed == JsonParse(Trim(text)) IN
    IF ~parsed.ok THEN [thrown |-> TRUE]
    ELSE IF parsed.v.t = "null" THEN [thrown |-> TRUE]
    ELSE LET raw == GetProp(parsed.v, "severity") IN
         IF raw.t # "string" THEN [thrown |-> TRUE]
         ELSE LET assessment == GetProp(parsed.v, "assessment")
              IN  [thrown |-> FALSE,
                   result |-> Returned(IF Truthy(assessment) THEN assessment
                                       ELSE JStr("Assessment unavailable"),
                                       ToLowerCase(raw.s))]

\* The inner try block: parse the text and validate the severity.  thrown
\* stands for any exception raised inside it (SyntaxError of JSON.parse,
\* TypeError of a property access on null or of a missing toLowerCase,
\* 'Invalid severity level').
ParseAssessment(text) ==
    LET parsed == JsonParse(Trim(text)) IN
    IF ~parsed.ok THEN [thrown |-> TRUE]
    ELSE IF parsed.v.t = "null" THEN [thrown |-> TRUE]
    ELSE LET raw == GetProp(parsed.v, "severity") IN
         IF raw.t \in {"undefined", "null"} THEN [thrown |-> TRUE]
         ELSE IF raw.t # "string" THEN [thrown |-> TRUE]
         ELSE LET severity   == ToLowerCase(raw.s)
                  assessment == GetProp(parsed.v, "assessment")
              IN  IF severity \notin Severities THEN [thrown |-> TRUE]
                  ELSE [thrown |-> FALSE,
                        result |-> Returned(IF Truthy(assessment) THEN assessment
                                            ELSE JStr("Assessment unavailable"),
                                            severity)]

\* The fallback of the inner catch raising instead of returning.
VerifyReportAfterCall_MalformedRaises(answer) ==
    IF answer.kind = "reject" THEN Raised("Verification service unavailable")
    ELSE IF answer.text = "" THEN Raised("Verification service unavailable")
    ELSE LET p == ParseAssessment(answer.text) IN
         IF p.thrown THEN Raised("Verification service unavailable")
         ELSE p.result

\* The part of verifyReport that runs once generateContent has settled.
VerifyReportAfterCall(answer) ==
    IF answer.kind = "reject" THEN Raised("Verification service unavailable")
    ELSE IF answer.text = "" THEN Raised("Verification service unavailable")
    ELSE LET p == ParseAssessment(answer.text) IN
         IF p.thrown THEN Returned(JStr(Trim(answer.text)), "medium")
         ELSE p.result

\* verifyReport as a whole, for a given configuration and model behaviour.
verifyReport(configured, answer) ==
    IF ~configured THEN Raised("Gemini client not configured")
    ELSE VerifyReportAfterCall(answer)

(***************************************************************************)
(* ReportSchema (zod)                                                      *)
(***************************************************************************)
ReportTypes == {"harassment", "discrimination", "assault", "other"}
DescriptionMin == 10
DescriptionMax == 1000
LocationMin == 3
LocationMax == 200

ShapeKeys == <<"type", "description", "location", "date">>

Field(body, key) == IF key \in DOMAIN body THEN body[key] ELSE Undefined

Issue(path, code) == [path |-> path, code |-> code]

\* /^\d{4}-\d{2}-\d{2}$/
MatchesDateRegex(s) ==
    /\ Len(s) = 10
    /\ \A i \in {1, 2, 3, 4, 6, 7, 9, 10} : IsDigit(Ch(s, i))
    /\ Ch(s, 5) = "-"
    /\ Ch(s, 8) = "-"

\* The issues zod reports for one key of the shape.
FieldIssues(key, value) ==
    IF value.t # "string" THEN <<Issue(key, "invalid_type")>>
    ELSE CASE key = "type" ->
                IF value.s \in ReportTypes THEN <<>>
                ELSE <<Issue(key, "invalid_enum_value")>>
           [] key = "description" ->
                IF Len(value.s) < DescriptionMin THEN <<Issue(key, "too_small")>>
                ELSE IF Len(value.s) > DescriptionMax THEN <<Issue(key, "too_big")>>
                ELSE <<>>
           [] key = "location" ->
                IF Len(value.s) < LocationMin THEN <<Issue(key, "too_small")>>
                ELSE IF Len(value.s) > LocationMax THEN <<Issue(key, "too_big")>>
                ELSE <<>>
           [] key = "date" ->
                IF MatchesDateRegex(value.s) THEN <<>>
                ELSE <<Issue(key, "invalid_string")>>

\* Validation that stops at the first key with an issue.
RECURSIVE AllIssues_FirstOnly(_, _)
AllIssues_FirstOnly(body, i) ==
    IF i > Len(ShapeKeys) THEN <<>>
    ELSE LET issues == FieldIssues(ShapeKeys[i], Field(body, ShapeKeys[i]))
         IN  IF issues # <<>> THEN issues ELSE AllIssues_FirstOnly(body, i + 1)

RECURSIVE AllIssues(_, _)
AllIssues(body, i) ==
    IF i > Len(ShapeKeys) THEN <<>>
    ELSE FieldIssues(ShapeKeys[i], Field(body, ShapeKeys[i])) \o AllIssues(body, i + 1)

\* ReportSchema.parse(req.body) for an object body: every key of the shape
\* is checked, unknown keys are stripped from the result.
ReportSchemaParse(body) ==
    LET errors == AllIssues(body, 1) IN
    IF errors # <<>> THEN [ok |-> FALSE, errors |-> errors]
    ELSE [ok |-> TRUE,
          data |-> [k \in {ShapeKeys[i] : i \in 1..Len(ShapeKeys)} |-> body[k]]]

(***************************************************************************)
(* The reports table (supabase migrations)                                 *)
(***************************************************************************)
\* The columns of reports.  severity is written by index.ts and read by
\* Admin.tsx although no migration of the repository creates it; the table
\* is taken to have it, nullable and without a default.
Columns == {"id", "type", "description", "location", "date", "verified",
            "verification_result", "created_at", "image_url", "severity"}

RECURSIVE ToNumber(_, _)
ToNumber(s, acc) ==
    IF Len(s) = 0 THEN acc ELSE ToNumber(Tail(s), 10 * acc + DigitVal(Ch(s, 1)))

DaysInMonth(y, m) ==
    IF m \in {4, 6, 9, 11} THEN 30
    ELSE IF m = 2 THEN (IF (y % 4 = 0 /\ y % 100 # 0) \/ y % 400 = 0 THEN 29 ELSE 28)
    ELSE 31

\* Whether the date column accepts the text.
IsCalendarDate(s) ==
    /\ MatchesDateRegex(s)
    /\ LET y == ToNumber(SubSeq(s, 1, 4), 0)
           m == ToNumber(SubSeq(s, 6, 7), 0)
           d == ToNumber(SubSeq(s, 9, 10), 0)
       IN  y >= 1 /\ m \in 1..12 /\ d >= 1 /\ d <= DaysInMonth(y, m)

\* NOT NULL and CHECK constraints of the table on an inserted record.
StorageAccepts(record) ==
    /\ DOMAIN record \subseteq Columns
    /\ \A k \in {"type", "description", "location", "date"} :
          k \in DOMAIN record /\ record[k].t = "string"
    /\ record["type"].s \in ReportTypes
    /\ Len(record["description"].s) >= DescriptionMin
    /\ Len(record["description"].s) <= DescriptionMax
    /\ Len(record["location"].s) >= LocationMin
    /\ Len(record["location"].s) <= LocationMax
    /\ IsCalendarDate(record["date"].s)

\* The row the table holds for an accepted record: column defaults, then
\* the inserted values.
NewRow(record, id) ==
    record @@ [id |-> JNum(id), created_at |-> JNum(id), verified |-> JBool(FALSE),
               verification_result |-> JNull, image_url |-> JNull, severity |-> JNull]

(***************************************************************************)
(* POST /reports and POST /verify (server/src/index.ts)                    *)
(***************************************************************************)
NoResult == [defined |-> FALSE]
Result(assessment, severity) ==
    [defined |-> TRUE, assessment |-> assessment, severity |-> severity]

\* The catch block without its fallback result.
VerificationStep_NoFallback(outcome) ==
    IF outcome.raised
    THEN [verified |-> FALSE, verificationResult |-> NoResult]
    ELSE [verified |-> TRUE,
          verificationResult |-> Result(outcome.assessment, outcome.severity)]

\* verified = true set after the try/catch instead of inside the try.
VerificationStep_VerifiedAfterCatch(outcome) ==
    IF outcome.raised
    THEN [verified |-> TRUE,
          verificationResult |-> Result(JStr("Verification failed"), "medium")]
    ELSE [verified |-> TRUE,
          verificationResult |-> Result(outcome.assessment, outcome.severity)]

\* The try/catch around the call of verifyReport in POST /reports.
VerificationStep(outcome) ==
    IF outcome.raised
    THEN [verified |-> FALSE,
          verificationResult |-> Result(JStr("Verification failed"), "medium")]
    ELSE [verified |-> TRUE,
          verificationResult |-> Result(outcome.assessment, outcome.severity)]

\* The record handed to insert: the parsed fields, then verified,
\* verification_result (dropped from the request when undefined) and
\* severity.
InsertRecord(reportData, verified, verificationResult) ==
    LET trust == [verified |-> JBool(verified),
                  severity |-> JStr(IF verificationResult.defined
                                       /\ verificationResult.severity # ""
                                    THEN verificationResult.severity ELSE "medium")]
        assessment == IF verificationResult.defined
                      THEN [verification_result |-> verificationResult.assessment]
                      ELSE <<>>
        kept == [k \in DOMAIN reportData \ {"verified", "verification_result", "severity"}
                    |-> reportData[k]]
    IN  trust @@ assessment @@ kept

NoResponse == [status |-> 0]
Created(data) == [status |-> 201, result |-> "success", data |-> data]
ValidationError(errors) ==
    [status |-> 400, result |-> "error", message |-> "Validation error", errors |-> errors]
InternalError == [status |-> 500, result |-> "error", message |-> "Internal server error"]

DescriptionRequired ==
    [status |-> 400, result |-> "error", message |-> "Description is required"]
ServiceUnavailable ==
    [status |-> 503, result |-> "error", message |-> "Verification service unavailable"]
ServiceError ==
    [status |-> 500, result |-> "error", message |-> "Verification service error"]
VerifyOk(outcome) ==
    [status |-> 200, result |-> "success",
     data |-> [verified |-> TRUE, verificationResult |-> outcome.assessment,
               severity |-> outcome.severity]]

\* POST /verify up to the call of verifyReport: the response it sends
\* there, or NoResponse when it goes on to call verifyReport.
\* description?.trim() is undefined for a missing or null description and a
\* TypeError for any other value that is not a string.
VerifyPrecheck(body, configured) ==
    LET description == Field(body, "description") IN
    IF description.t \in {"undefined", "null"} THEN DescriptionRequired
    ELSE IF description.t # "string" THEN ServiceError
    ELSE IF Trim(description.s) = "" THEN DescriptionRequired
    ELSE IF ~configured THEN ServiceUnavailable
    ELSE NoResponse

\* POST /verify once verifyReport has settled.
VerifyRespond(outcome) == IF outcome.raised THEN ServiceError ELSE VerifyOk(outcome)

(***************************************************************************)
(* ReportForm.handleSubmit (src/components/ReportForm.tsx)                 *)
(***************************************************************************)
\* response.ok of fetch.
ResponseOk(response) == response.status >= 200 /\ response.status <= 299

\* The record the form inserts: the form fields, image_url when an image
\* was uploaded, and the two fields taken from the answer of POST /verify.
FormRecord(formData, image_url, verificationData) ==
    LET fromVerify == [verified |-> JBool(verificationData.data.verified),
                       verification_result |-> verificationData.data.verificationResult]
        image == IF image_url = "" THEN <<>> ELSE [image_url |-> JStr(image_url)]
    IN  fromVerify @@ image @@ formData

(***************************************************************************)
(* Inputs                                                                  *)
(***************************************************************************)
\* Requests and form submissions in one behaviour.
MaxRequests == 2

Slots == 1..MaxRequests

Ten == "0123456789"
Hundred == Ten \o Ten \o Ten \o Ten \o Ten \o Ten \o Ten \o Ten \o Ten \o Ten
Thousand == Hundred \o Hundred \o Hundred \o Hundred \o Hundred
                \o Hundred \o Hundred \o Hundred \o Hundred \o Hundred

ValidBody ==
    [type |-> JStr("harassment"), description |-> JStr("He hit me."),
     location |-> JStr("Park"), date |-> JStr("2024-01-01")]

With(body, key, value) == [body EXCEPT ![key] = value]
Without(body, key) == [k \in DOMAIN body \ {key} |-> body[k]]

\* Bodies of POST /reports that satisfy ReportSchema.
ValidBodies ==
    { \* extra fields that name the trust fields
      [verified |-> JBool(TRUE), severity |-> JStr("critical"),
       verification_result |-> JStr("trusted")] @@ ValidBody,
      \* the largest description and location, a date no calendar has
      [type |-> JStr("other"), description |-> JStr(Thousand),
       location |-> JStr(Hundred \o Hundred), date |-> JStr("2024-13-45")] }

\* Bodies of POST /reports that violate ReportSchema.
InvalidBodies ==
    { With(ValidBody, "description", JStr("ab")),
      With(ValidBody, "description", JStr(Thousand \o "x")),
      With(ValidBody, "description", JNum(5)),
      With(ValidBody, "location", JStr("ab")),
      With(ValidBody, "location", JStr(Hundred \o Hundred \o "x")),
      With(ValidBody, "type", JStr("theft")),
      With(ValidBody, "date", JStr("2024-1-1")),
      With(ValidBody, "date", JStr("2024-01-01T00")),
      Without(ValidBody, "date"),
      [type |-> JStr("theft"), description |-> JStr("ab"),
       location |-> JStr(""), date |-> JStr("yesterday")],
      [verified |-> JBool(TRUE)],
      <<>> }

ReportBodies == ValidBodies \cup InvalidBodies

\* Bodies of POST /verify.
VerifyBodies ==
    { [description |-> JStr("He hit me.")],
      [description |-> JStr("  \n\t ")],
      [description |-> JStr("")],
      [description |-> JNull],
      [description |-> JNum(5)],
      [description |-> JArr(<<JStr("He hit me.")>>)],
      <<>> }

\* Answers of the model, by the path of verifyReport they take.
ModelTexts ==
    { "",
      "{\"assessment\":\"X\",\"severity\":\"HIGH\"}",
      "  {\n  \"assessment\": \"Minor incident.\",\n  \"severity\": \"low\"\n}\n",
      "{\"severity\":\"Medium\",\"assessment\":\"Needs attention\"}",
      "{\"severity\":\"high\"}",
      "{\"assessment\":\"\",\"severity\":\"low\"}",
      "{\"assessment\":null,\"severity\":\"low\"}",
      "{\"assessment\":0,\"severity\":\"high\"}",
      "{\"assessment\":false,\"severity\":\"high\"}",
      "{\"assessment\":7,\"severity\":\"high\"}",
      "{\"assessment\":{\"summary\":\"X\"},\"severity\":\"LOW\"}",
      "{\"assessment\":\"X\",\"severity\":\"low\",\"severity\":\"high\"}",
      "looks concerning",
      "  looks concerning \n",
      "   ",
      "Here is my analysis:\n{\"assessment\":\"X\",\"severity\":\"high\"}",
      "{\"assessment\":\"X\",\"severity\":\"critical\"}",
      "{\"assessment\":\"X\",\"severity\":\" high\"}",
      "{\"assessment\":\"X\",\"severity\":\"\"}",
      "{\"assessment\":\"X\",\"severity\":3}",
      "{\"assessment\":\"X\",\"severity\":null}",
      "{\"assessment\":\"X\",\"severity\":[\"high\"]}",
      "{\"assessment\":\"X\"}",
      "{\"assessment\":\"X\",\"severity\":\"high\",}",
      "{\"assessment\":\"X\",\"severity\":\"high\"} thanks",
      "null",
      "\"high\"",
      "[\"high\"]",
      "42",
      "{}" }

ModelAnswers == {Rejects} \cup {Returns(text) : text \in ModelTexts}

\* The answers the request handlers are run against, one for each way
\* verifyReport can end.
HandlerAnswers ==
    { Rejects,
      Returns(""),
      Returns("{\"assessment\":\"X\",\"severity\":\"HIGH\"}"),
      Returns("looks concerning") }

Descriptions == {"He hit me.", "ok", "   ", Thousand}

\* What the form holds when it is submitted: the select offers the four
\* types, the other three inputs are required.
ValidForm ==
    [type |-> JStr("assault"), description |-> JStr("He hit me."),
     location |-> JStr("Park"), date |-> JStr("2024-01-01")]

\* Submissions: the form fields and whether an image was chosen.
FormInputs ==
    { [formData |-> ValidForm, imageFile |-> FALSE],
      [formData |-> ValidForm, imageFile |-> TRUE],
      [formData |-> With(ValidForm, "description", JStr("ok")), imageFile |-> FALSE],
      [formData |-> With(ValidForm, "description", JStr("   ")), imageFile |-> FALSE] }

(***************************************************************************)
(* State                                                                   *)
(***************************************************************************)
\* genAI:   whether GEMINI_API_KEY was set when the server started
\* req:     per slot, one HTTP request to the server or one submission of
\*          the public form, and how far its handler has run
\* reports: the rows of the reports table, in insertion order
\* nextId:  the next id (and timestamp) the table assigns
\* call:    a direct call of verifyReport, its arguments and result
\* admins:  the rows of the admins table
\* audit:   what the row-level policies let each identity do, as it happened
\* admin:   the admin dashboard component: its React state, how far
\*          checkAuth has run, and the deletes in flight
\* boot:    startServer: the port it is trying and what became of it
VARIABLES genAI, req, reports, nextId, call, admins, audit, admin, boot

vars == <<genAI, req, reports, nextId, call, admins, audit, admin, boot>>

NotCalled == [called |-> FALSE]
Pending == [called |-> TRUE, settled |-> FALSE]
Settled(result) == [called |-> TRUE, settled |-> TRUE, result |-> result]

\* kind: none, reports (POST /reports), verify (POST /verify), form
\* (handleSubmit, whose POST /verify is handled in the same slot).
\* pc: idle, fetch, model, responded, upload, insert, done.
\* events and outcome record what the handler did: the outbound calls it
\* started and saw settle, and how verifyReport ended; answer is what the
\* model answered to the request.
Idle ==
    [kind |-> "none", pc |-> "idle", body |-> <<>>, reportData |-> <<>>,
     verified |-> FALSE, verificationResult |-> NoResult, record |-> <<>>,
     response |-> NoResponse, events |-> <<>>, outcome |-> NotCalled, rowId |-> 0,
     formData |-> <<>>, imageFile |-> FALSE, image_url |-> "",
     isSubmitting |-> FALSE, submitted |-> FALSE, error |-> "",
     answer |-> [kind |-> "none"]]

NoCall == [pc |-> "none"]

\* The dashboard before it is mounted.
Unmounted ==
    [pc |-> "unmounted", session |-> "none", reports |-> <<>>, loading |-> TRUE,
     error |-> "", location |-> "/admin", events |-> <<>>, deletes |-> {},
     clicks |-> 0, fetched |-> {}, deleted |-> {}, touched |-> {}]
NotStarted ==
    [pc |-> "none", i |-> 0, attempts |-> <<>>, listening |-> {}, ports |-> <<>>,
     exitCode |-> -1]

Init ==
    /\ genAI \in BOOLEAN
    /\ req = [r \in Slots |-> Idle]
    /\ reports = <<>>
    /\ nextId = 1
    /\ call = NoCall
    /\ admins = {}
    /\ audit = {}
    /\ admin = Unmounted
    /\ boot = NotStarted

\* Slots are taken in order.
Free(r) == req[r].kind = "none" /\ (r > 1 => req[r - 1].kind # "none")

(***************************************************************************)
(* POST /reports                                                           *)
(***************************************************************************)
StartInsert(slot, record) ==
    [slot EXCEPT !.record = record, !.pc = "insert",
                 !.events = Append(@, "insert")]

Respond(slot, response) ==
    [slot EXCEPT !.response = response, !.pc = "done",
                 !.events = Append(@, "respond")]

\* The handler with a module-level flag that a failed verification of any
\* request sets and that makes later requests skip verification.
ReportsReceive_SharedFlag(slot, body, configured) ==
    LET parsed == ReportSchemaParse(body)
        s0     == [slot EXCEPT !.kind = "reports", !.body = body]
        failed == \E q \in DOMAIN req :
                      /\ req[q].outcome.called
                      /\ req[q].outcome.settled
                      /\ req[q].outcome.result.raised
    IN  IF ~parsed.ok THEN Respond(s0, ValidationError(parsed.errors))
        ELSE IF configured /\ ~failed
        THEN [s0 EXCEPT !.reportData = parsed.data, !.pc = "model",
                        !.outcome = Pending, !.events = Append(@, "model")]
        ELSE StartInsert([s0 EXCEPT !.reportData = parsed.data],
                         InsertRecord(parsed.data, FALSE, NoResult))

\* The handler calling verifyReport whether or not a client is configured.
ReportsReceive_AlwaysVerify(slot, body, configured) ==
    LET parsed == ReportSchemaParse(body)
        s0     == [slot EXCEPT !.kind = "reports", !.body = body]
    IN  IF ~parsed.ok THEN Respond(s0, ValidationError(parsed.errors))
        ELSE [s0 EXCEPT !.reportData = parsed.data, !.pc = "model",
                        !.outcome = Pending, !.events = Append(@, "model")]

\* The handler calling verifyReport without awaiting it: the insert starts
\* while the model call is pending.
ReportsReceive_NoAwait(slot, body, configured) ==
    LET parsed == ReportSchemaParse(body)
        s0     == [slot EXCEPT !.kind = "reports", !.body = body]
    IN  IF ~parsed.ok THEN Respond(s0, ValidationError(parsed.errors))
        ELSE IF configured
        THEN StartInsert([s0 EXCEPT !.reportData = parsed.data, !.outcome = Pending,
                                    !.events = Append(@, "model")],
                         InsertRecord(parsed.data, TRUE, NoResult))
        ELSE StartInsert([s0 EXCEPT !.reportData = parsed.data],
                         InsertRecord(parsed.data, FALSE, NoResult))

\* The handler from the arrival of the request to its first await.
ReportsReceive(slot, body, configured) ==
    LET parsed == ReportSchemaParse(body)
        s0     == [slot EXCEPT !.kind = "reports", !.body = body]
    IN  IF ~parsed.ok THEN Respond(s0, ValidationError(parsed.errors))
        ELSE IF configured
        THEN [s0 EXCEPT !.reportData = parsed.data, !.pc = "model",
                        !.outcome = Pending, !.events = Append(@, "model")]
        ELSE StartInsert([s0 EXCEPT !.reportData = parsed.data],
                         InsertRecord(parsed.data, FALSE, NoResult))

\* The handler from the settling of verifyReport to the insert.
ReportsVerified(slot, outcome) ==
    LET step == VerificationStep(outcome)
        s1   == [slot EXCEPT !.verified = step.verified,
                             !.verificationResult = step.verificationResult,
                             !.outcome = Settled(outcome),
                             !.events = Append(@, "model_settled")]
    IN  StartInsert(s1, InsertRecord(slot.reportData, step.verified,
                                     step.verificationResult))

\* The handler without its check of the error of the insert.
ReportsInserted_ErrorIgnored(slot, answer) ==
    LET s1 == [slot EXCEPT !.events = Append(@, "insert_settled")] IN
    Respond(s1, Created(IF answer.error THEN JNull ELSE answer.data))

\* The handler from the settling of the insert to the response.
ReportsInserted(slot, answer) ==
    LET s1 == [slot EXCEPT !.events = Append(@, "insert_settled")] IN
    IF answer.error THEN Respond(s1, InternalError)
    ELSE Respond(s1, Created(answer.data))

PostReports(r, body) ==
    /\ Free(r)
    /\ req' = [req EXCEPT ![r] = ReportsReceive(req[r], body, genAI)]
    /\ UNCHANGED <<genAI, reports, nextId, call, admins, audit, admin, boot>>

ReportsModelSettles(r, answer) ==
    /\ req[r].kind = "reports"
    /\ req[r].pc = "model"
    /\ req' = [req EXCEPT ![r] =
                  [ReportsVerified(req[r], verifyReport(genAI, answer))
                      EXCEPT !.answer = answer]]
    /\ UNCHANGED <<genAI, reports, nextId, call, admins, audit, admin, boot>>

\* insert(...).select().single() succeeds: the row exists and is returned.
ReportsInsertSucceeds(r) ==
    /\ req[r].kind = "reports"
    /\ req[r].pc = "insert"
    /\ StorageAccepts(req[r].record)
    /\ LET row == NewRow(req[r].record, nextId) IN
       /\ reports' = Append(reports, row)
       /\ req' = [req EXCEPT ![r] =
                    [ReportsInserted(req[r], [error |-> FALSE, data |-> row])
                        EXCEPT !.rowId = nextId]]
    /\ nextId' = nextId + 1
    /\ UNCHANGED <<genAI, call, admins, audit, admin, boot>>

\* The insert reports an error (a constraint, a policy, the network): the
\* statement leaves no row.
ReportsInsertFails(r) ==
    /\ req[r].kind = "reports"
    /\ req[r].pc = "insert"
    /\ req' = [req EXCEPT ![r] = ReportsInserted(req[r], [error |-> TRUE])]
    /\ UNCHANGED <<genAI, reports, nextId, call, admins, audit, admin, boot>>

(***************************************************************************)
(* POST /verify                                                            *)
(***************************************************************************)
\* The slot once the server has answered: an HTTP client is done, the form
\* goes on with the answer.
VerifyAnswered(slot, response) ==
    [slot EXCEPT !.response = response,
                 !.pc = IF slot.kind = "form" THEN "responded" ELSE "done",
                 !.events = Append(@, "respond")]

\* The handler from the arrival of the request to its first await.
VerifyReceive(slot, body, configured) ==
    LET early == VerifyPrecheck(body, configured)
        s0    == [slot EXCEPT !.body = body]
    IN  IF early # NoResponse THEN VerifyAnswered(s0, early)
        ELSE [s0 EXCEPT !.pc = "model", !.outcome = Pending,
                        !.events = Append(@, "model")]

\* The handler from the settling of verifyReport to the response.
VerifyVerified(slot, outcome) ==
    VerifyAnswered([slot EXCEPT !.outcome = Settled(outcome),
                                !.events = Append(@, "model_settled")],
                   VerifyRespond(outcome))

PostVerify(r, body) ==
    /\ Free(r)
    /\ req' = [req EXCEPT ![r] =
                  VerifyReceive([req[r] EXCEPT !.kind = "verify"], body, genAI)]
    /\ UNCHANGED <<genAI, reports, nextId, call, admins, audit, admin, boot>>

VerifyModelSettles(r, answer) ==
    /\ req[r].kind \in {"verify", "form"}
    /\ req[r].pc = "model"
    /\ req' = [req EXCEPT ![r] =
                  [VerifyVerified(req[r], verifyReport(genAI, answer))
                      EXCEPT !.answer = answer]]
    /\ UNCHANGED <<genAI, reports, nextId, call, admins, audit, admin, boot>>

(***************************************************************************)
(* The public form                                                         *)
(***************************************************************************)
FormFailed(slot, message) ==
    [slot EXCEPT !.error = message, !.isSubmitting = FALSE, !.pc = "done"]

\* handleSubmit up to the fetch of POST /verify.
FormSubmit(r, formData, imageFile) ==
    /\ Free(r)
    /\ req' = [req EXCEPT ![r] =
                  [@ EXCEPT !.kind = "form", !.pc = "fetch", !.formData = formData,
                            !.imageFile = imageFile, !.isSubmitting = TRUE,
                            !.error = ""]]
    /\ UNCHANGED <<genAI, reports, nextId, call, admins, audit, admin, boot>>

\* The backend cannot be reached: fetch rejects.
FormFetchRejects(r) ==
    /\ req[r].kind = "form"
    /\ req[r].pc = "fetch"
    /\ req' = [req EXCEPT ![r] = FormFailed(@, "Failed to fetch")]
    /\ UNCHANGED <<genAI, reports, nextId, call, admins, audit, admin, boot>>

\* The form's request reaches POST /verify.
FormVerifyArrives(r) ==
    /\ req[r].kind = "form"
    /\ req[r].pc = "fetch"
    /\ req' = [req EXCEPT ![r] =
                  VerifyReceive(@, [description |-> @.formData["description"]], genAI)]
    /\ UNCHANGED <<genAI, reports, nextId, call, admins, audit, admin, boot>>

\* handleSubmit from the answer of POST /verify to its next await.
FormVerifyResponds(r) ==
    /\ req[r].kind = "form"
    /\ req[r].pc = "responded"
    /\ LET slot == req[r] IN
       req' = [req EXCEPT ![r] =
                 IF ~ResponseOk(slot.response)
                 THEN FormFailed(slot, "Failed to verify report")
                 ELSE IF slot.imageFile THEN [slot EXCEPT !.pc = "upload"]
                 ELSE StartInsert(slot, FormRecord(slot.formData, "", slot.response))]
    /\ UNCHANGED <<genAI, reports, nextId, call, admins, audit, admin, boot>>

FormUploadSucceeds(r) ==
    /\ req[r].kind = "form"
    /\ req[r].pc = "upload"
    /\ LET slot == [req[r] EXCEPT !.image_url = "https://cdn/report-images/1.png"] IN
       req' = [req EXCEPT ![r] =
                 StartInsert(slot, FormRecord(slot.formData, slot.image_url,
                                              slot.response))]
    /\ UNCHANGED <<genAI, reports, nextId, call, admins, audit, admin, boot>>

FormUploadFails(r) ==
    /\ req[r].kind = "form"
    /\ req[r].pc = "upload"
    /\ req' = [req EXCEPT ![r] = FormFailed(@, "Failed to upload image")]
    /\ UNCHANGED <<genAI, reports, nextId, call, admins, audit, admin, boot>>

FormInsertSucceeds(r) ==
    /\ req[r].kind = "form"
    /\ req[r].pc = "insert"
    /\ StorageAccepts(req[r].record)
    /\ reports' = Append(reports, NewRow(req[r].record, nextId))
    /\ req' = [req EXCEPT ![r] =
                  [@ EXCEPT !.submitted = TRUE, !.isSubmitting = FALSE, !.pc = "done",
                            !.rowId = nextId, !.events = Append(@, "insert_settled")]]
    /\ nextId' = nextId + 1
    /\ UNCHANGED <<genAI, call, admins, audit, admin, boot>>

FormInsertFails(r) ==
    /\ req[r].kind = "form"
    /\ req[r].pc = "insert"
    /\ req' = [req EXCEPT ![r] =
                  FormFailed([@ EXCEPT !.events = Append(@, "insert_settled")],
                             "Failed to submit report")]
    /\ UNCHANGED <<genAI, reports, nextId, call, admins, audit, admin, boot>>

Next ==
    \/ \E r \in Slots, body \in ReportBodies : PostReports(r, body)
    \/ \E r \in Slots, answer \in HandlerAnswers : ReportsModelSettles(r, answer)
    \/ \E r \in Slots : ReportsInsertSucceeds(r)
    \/ \E r \in Slots : ReportsInsertFails(r)
    \/ \E r \in Slots, body \in VerifyBodies : PostVerify(r, body)
    \/ \E r \in Slots, answer \in HandlerAnswers : VerifyModelSettles(r, answer)
    \/ \E r \in Slots, input \in FormInputs :
          FormSubmit(r, input.formData, input.imageFile)
    \/ \E r \in Slots : FormFetchRejects(r)
    \/ \E r \in Slots : FormVerifyArrives(r)
    \/ \E r \in Slots : FormVerifyResponds(r)
    \/ \E r \in Slots : FormUploadSucceeds(r)
    \/ \E r \in Slots : FormUploadFails(r)
    \/ \E r \in Slots : FormInsertSucceeds(r)
    \/ \E r \in Slots : FormInsertFails(r)

Spec == Init /\ [][Next]_vars

(***************************************************************************)
(* verifyReport called directly, for every configuration, description and  *)
(* behaviour of the model                                                  *)
(***************************************************************************)
InitVerify ==
    /\ genAI \in BOOLEAN
    /\ req = [r \in Slots |-> Idle]
    /\ reports = <<>>
    /\ nextId = 1
    /\ call \in [pc : {"ready"}, description : Descriptions, answer : ModelAnswers]
    /\ admins = {}
    /\ audit = {}
    /\ admin = Unmounted
    /\ boot = NotStarted

CallVerifyReport ==
    /\ call.pc = "ready"
    /\ call' = [pc |-> "done", description |-> call.description,
                answer |-> call.answer, result |-> verifyReport(genAI, call.answer)]
    /\ UNCHANGED <<genAI, req, reports, nextId, admins, audit, admin, boot>>

NextVerify == CallVerifyReport

SpecVerify == InitVerify /\ [][NextVerify]_vars

(***************************************************************************)
(* Row-level security (supabase migrations)                                *)
(***************************************************************************)
\* Who calls the storage API: nobody signed in, or a signed-in user.
Anon == "anon"
Users == {"u1", "u2"}
Identities == {Anon} \cup Users

\* auth.uid() and the database role of a caller.
Role(uid) == IF uid = Anon THEN "anon" ELSE "authenticated"

\* The policies in force once all migrations have run: "Admins can view
\* their own data" is the version of the later migration.
Policies ==
    { [name |-> "Anyone can create reports", table |-> "reports",
       cmd |-> "INSERT", roles |-> {"anon", "authenticated"}],
      [name |-> "Admins can view all reports", table |-> "reports",
       cmd |-> "SELECT", roles |-> {"authenticated"}],
      [name |-> "Admins can delete reports", table |-> "reports",
       cmd |-> "DELETE", roles |-> {"authenticated"}],
      [name |-> "Enable admin self-registration", table |-> "admins",
       cmd |-> "INSERT", roles |-> {"authenticated"}],
      [name |-> "Admins can view their own data", table |-> "admins",
       cmd |-> "SELECT", roles |-> {"authenticated"}] }

\* The reports policies with USING (true), as the admins SELECT policy has.
PolicyExpression_ReportsOpen(name, uid, row, adminRows) ==
    CASE name = "Anyone can create reports" -> TRUE
      [] name = "Admins can view all reports" -> TRUE
      [] name = "Admins can delete reports" -> TRUE
      [] name = "Enable admin self-registration" -> uid = row.id
      [] name = "Admins can view their own data" -> TRUE

\* The USING / WITH CHECK expression of a policy for a caller and a row.
PolicyExpression(name, uid, row, adminRows) ==
    CASE name = "Anyone can create reports" -> TRUE
      [] name = "Admins can view all reports" -> \E a \in adminRows : a.id = uid
      [] name = "Admins can delete reports" -> \E a \in adminRows : a.id = uid
      [] name = "Enable admin self-registration" -> uid = row.id
      [] name = "Admins can view their own data" -> TRUE

\* With row-level security enabled a command touches a row only when a
\* policy for the table, the command and the caller's role passes.
Allowed(table, cmd, uid, row, adminRows) ==
    \E policy \in Policies :
        /\ policy.table = table
        /\ policy.cmd = cmd
        /\ Role(uid) \in policy.roles
        /\ PolicyExpression(policy.name, uid, row, adminRows)

\* Rows of the reports table in one behaviour of the storage API.
MaxReports == 2

\* The record an API caller inserts.
ApiRecord ==
    [type |-> JStr("other"), description |-> JStr("Seen at noon."),
     location |-> JStr("Mall"), date |-> JStr("2024-02-29")]

AdminRow(uid) == [id |-> uid, email |-> uid \o "@example.org"]

HasAdminRow(uid) == \E a \in admins : a.id = uid

\* What a call did, and whether the caller had an admins row when it did
\* (history for the access properties).  uid is the id of an inserted
\* admins row.
Entry(who, op, uid) ==
    [who |-> who, op |-> op, uid |-> uid, admin |-> HasAdminRow(who)]

\* A call that row-level security kept from touching any row.
Denied == [who |-> "", op |-> "denied", uid |-> "", admin |-> FALSE]

\* insert into reports, with or without RETURNING (select()): the new row
\* must pass the INSERT policy and, when it is returned, the SELECT policy.
ApiInsertReport(u, returning) ==
    /\ nextId <= MaxReports
    /\ StorageAccepts(ApiRecord)
    /\ LET row == NewRow(ApiRecord, nextId)
           ok  == /\ Allowed("reports", "INSERT", u, row, admins)
                  /\ returning => Allowed("reports", "SELECT", u, row, admins)
       IN  IF ok
           THEN /\ reports' = Append(reports, row)
                /\ nextId' = nextId + 1
                /\ audit' = audit \cup {Entry(u, "insert", "")}
           ELSE /\ UNCHANGED <<reports, nextId>>
                /\ audit' = audit \cup
                      {IF returning THEN Denied ELSE Entry(u, "insert_denied", "")}
    /\ UNCHANGED <<genAI, req, call, admins, admin, boot>>

\* select * from reports: the rows the SELECT policy lets the caller see.
ApiSelectReports(u) ==
    /\ audit' = audit \cup
          {Entry(u, "select", "") :
              i \in {j \in 1..Len(reports) :
                        Allowed("reports", "SELECT", u, reports[j], admins)}}
    /\ UNCHANGED <<genAI, req, reports, nextId, call, admins, admin, boot>>

\* The rows of a table that are left after a delete by id.
TableDelete(rows, id) == SelectSeq(rows, LAMBDA row : row["id"] # JNum(id))

\* delete from reports where id = ...: only rows that pass the DELETE
\* policy go; a delete that matches no row is no error.
ApiDeleteReport(u, id) ==
    /\ \E i \in 1..Len(reports) : reports[i]["id"] = JNum(id)
    /\ LET row == reports[CHOOSE i \in 1..Len(reports) : reports[i]["id"] = JNum(id)]
       IN  IF Allowed("reports", "DELETE", u, row, admins)
           THEN /\ reports' = TableDelete(reports, id)
                /\ audit' = audit \cup {Entry(u, "delete", "")}
           ELSE /\ UNCHANGED reports
                /\ audit' = audit \cup {Denied}
    /\ UNCHANGED <<genAI, req, nextId, call, admins, admin, boot>>

\* An update that no policy stands in the way of.
ApiUpdateReport_Unchecked(u, id) ==
    /\ \E i \in 1..Len(reports) : reports[i]["id"] = JNum(id)
    /\ reports' =
          [i \in 1..Len(reports) |->
              IF reports[i]["id"] = JNum(id)
              THEN [reports[i] EXCEPT !["verified"] = JBool(TRUE)]
              ELSE reports[i]]
    /\ audit' = audit \cup {Denied}
    /\ UNCHANGED <<genAI, req, nextId, call, admins, admin, boot>>

\* update reports set ...: no UPDATE policy exists, no row is touched.
ApiUpdateReport(u, id) ==
    /\ \E i \in 1..Len(reports) : reports[i]["id"] = JNum(id)
    /\ reports' =
          [i \in 1..Len(reports) |->
              IF reports[i]["id"] = JNum(id)
                 /\ Allowed("reports", "UPDATE", u, reports[i], admins)
              THEN [reports[i] EXCEPT !["verified"] = JBool(TRUE)]
              ELSE reports[i]]
    /\ audit' = audit \cup {Denied}
    /\ UNCHANGED <<genAI, req, nextId, call, admins, admin, boot>>

\* insert into admins: the row must pass the INSERT policy and the primary
\* key.
ApiInsertAdmin(u, id) ==
    /\ IF Allowed("admins", "INSERT", u, AdminRow(id), admins) /\ ~HasAdminRow(id)
       THEN /\ admins' = admins \cup {AdminRow(id)}
            /\ audit' = audit \cup {Entry(u, "insert_admin", id)}
       ELSE /\ UNCHANGED admins
            /\ audit' = audit \cup {Denied}
    /\ UNCHANGED <<genAI, req, reports, nextId, call, admin, boot>>

\* delete from admins: no DELETE policy exists, no row is touched.
ApiDeleteAdmin(u, id) ==
    /\ HasAdminRow(id)
    /\ admins' = {a \in admins :
                    ~(a.id = id /\ Allowed("admins", "DELETE", u, a, admins))}
    /\ audit' = audit \cup {Denied}
    /\ UNCHANGED <<genAI, req, reports, nextId, call, admin, boot>>

NextRLS ==
    \/ \E u \in Identities, returning \in BOOLEAN : ApiInsertReport(u, returning)
    \/ \E u \in Identities : ApiSelectReports(u)
    \/ \E u \in Identities, id \in 1..MaxReports : ApiDeleteReport(u, id)
    \/ \E u \in Identities, id \in 1..MaxReports : ApiUpdateReport(u, id)
    \/ \E u \in Identities, id \in Users : ApiInsertAdmin(u, id)
    \/ \E u \in Identities, id \in Users : ApiDeleteAdmin(u, id)

SpecRLS == Init /\ [][NextRLS]_vars

(***************************************************************************)
(* Server start-up (startServer)                                           *)
(***************************************************************************)
BASE_PORT == 5000
MAX_RETRIES == 10

\* The ports the loop can reach.
Ports == BASE_PORT .. (BASE_PORT + MAX_RETRIES - 1)

\* What listen() on a port meets: the port is free, another process holds
\* it (EADDRINUSE), or binding fails for another reason (EACCES).
PortStates == {"free", "EADDRINUSE", "EACCES"}

\* The catch block moving on after any error.
AfterListenError_RetryAny(b, code) ==
    IF b.i = MAX_RETRIES - 1
    THEN [b EXCEPT !.pc = "exited", !.exitCode = 1]
    ELSE [b EXCEPT !.i = b.i + 1]

\* The catch block: exit with code 1 unless the error is EADDRINUSE and
\* ports remain, otherwise go round the loop with i + 1.
AfterListenError(b, code) ==
    IF code # "EADDRINUSE" \/ b.i = MAX_RETRIES - 1
    THEN [b EXCEPT !.pc = "exited", !.exitCode = 1]
    ELSE [b EXCEPT !.i = b.i + 1]

\* The start-up state for a given state of the ports.
InitBoot ==
    /\ genAI \in BOOLEAN
    /\ req = [r \in Slots |-> Idle]
    /\ reports = <<>>
    /\ nextId = 1
    /\ call = NoCall
    /\ admins = {}
    /\ audit = {}
    /\ admin = Unmounted
    /\ \E ports \in [Ports -> PortStates] : boot = [NotStarted EXCEPT !.ports = ports]

\* startServer() is called and enters the loop with i = 0.
StartServer ==
    /\ boot.pc = "none"
    /\ boot' = [boot EXCEPT !.pc = "loop"]
    /\ UNCHANGED <<genAI, req, reports, nextId, call, admins, audit, admin>>

\* app.listen(port) calls back: the promise resolves and the loop breaks.
ListenSucceeds ==
    /\ boot.pc = "loop"
    /\ boot.i < MAX_RETRIES
    /\ LET port == BASE_PORT + boot.i
       IN  /\ boot.ports[port] = "free"
           /\ boot' = [boot EXCEPT !.pc = "listening",
                                   !.attempts = Append(@, [port |-> port, result |-> "listening"]),
                                   !.listening = @ \cup {port}]
    /\ UNCHANGED <<genAI, req, reports, nextId, call, admins, audit, admin>>

\* The server emits 'error': the promise rejects (an EADDRINUSE server is
\* closed first) and the catch block decides.
ListenFails ==
    /\ boot.pc = "loop"
    /\ boot.i < MAX_RETRIES
    /\ LET port == BASE_PORT + boot.i
           code == boot.ports[port]
       IN  /\ code # "free"
           /\ boot' = AfterListenError(
                         [boot EXCEPT !.attempts = Append(@, [port |-> port, result |-> code])],
                         code)
    /\ UNCHANGED <<genAI, req, reports, nextId, call, admins, audit, admin>>

NextBoot == StartServer \/ ListenSucceeds \/ ListenFails

SpecBoot == InitBoot /\ [][NextBoot]_vars

(***************************************************************************)
(* Admin dashboard (Admin.tsx)                                             *)
(***************************************************************************)
\* Clicks on Delete in one visit of the dashboard.
MaxDeletes == 2

\* Ids of the rows of a list.
Ids(rows) == {rows[i]["id"].n : i \in 1..Len(rows)}

\* .order('created_at', { ascending: false }): latest row first.
RECURSIVE OrderByCreatedAtDesc(_)
OrderByCreatedAtDesc(rows) ==
    IF rows = <<>> THEN <<>>
    ELSE LET latest == CHOOSE i \in 1..Len(rows) :
                          \A j \in 1..Len(rows) :
                              \/ rows[j]["created_at"].n < rows[i]["created_at"].n
                              \/ (rows[j]["created_at"].n = rows[i]["created_at"].n /\ i <= j)
         IN  <<rows[latest]>> \o
             OrderByCreatedAtDesc(SubSeq(rows, 1, latest - 1) \o
                                  SubSeq(rows, latest + 1, Len(rows)))

\* The message shown for a storage error: its own when it is an Error
\* object, the fallback when it is a plain object.
ErrorMessage(isError, fallback) == IF isError THEN "storage error" ELSE fallback

\* catch of checkAuth: navigate('/login').
CheckAuthCatch(a, event) ==
    [a EXCEPT !.pc = "login", !.location = "/login", !.events = Append(@, event)]

\* fetchReports() is called: the select is under way.
FetchReportsStart(a, event) ==
    [a EXCEPT !.pc = "fetching", !.events = Append(Append(@, event), "fetch")]

\* checkAuth after getSession: no session navigates to /login and returns.
CheckAuthSession(a, session) ==
    IF session = "none"
    THEN [a EXCEPT !.pc = "login", !.location = "/login",
                   !.events = Append(@, "no_session")]
    ELSE [a EXCEPT !.pc = "lookup", !.session = session,
                   !.events = Append(@, "session")]

\* checkAuth fetching reports whatever the admins lookup answered.
CheckAuthLookup_ErrorIgnored(a, adminData, adminError) ==
    IF ~adminData /\ ~adminError
    THEN [a EXCEPT !.pc = "register"]
    ELSE FetchReportsStart(a, IF adminError THEN "lookup_error" ELSE "admin_found")

\* checkAuth after the admins lookup: register when no row and no error,
\* throw on an error, otherwise go on to fetchReports.
CheckAuthLookup(a, adminData, adminError) ==
    IF ~adminData /\ ~adminError
    THEN [a EXCEPT !.pc = "register"]
    ELSE IF adminError
         THEN CheckAuthCatch(a, "lookup_error")
         ELSE FetchReportsStart(a, "admin_found")

\* checkAuth after the self-registration insert.
CheckAuthRegister(a, insertError) ==
    IF insertError
    THEN CheckAuthCatch(a, "register_failed")
    ELSE FetchReportsStart(a, "admin_inserted")

\* fetchReports after the select: setReports(data) or setError, and in
\* both cases setLoading(false).
FetchReportsSettled(a, data, error, isError) ==
    IF error
    THEN [a EXCEPT !.pc = "ready", !.loading = FALSE,
                   !.error = ErrorMessage(isError, "Failed to fetch reports")]
    ELSE [a EXCEPT !.pc = "ready", !.loading = FALSE, !.reports = data,
                   !.fetched = Ids(data)]

\* reports.filter(report => report.id !== id)
FilterOut(rows, id) == SelectSeq(rows, LAMBDA row : row["id"] # JNum(id))

\* handleDelete after the storage delete: reports is the list of the
\* render in which the button was clicked.
HandleDeleteSettled(a, d, error, isError) ==
    IF error
    THEN [a EXCEPT !.error = ErrorMessage(isError, "Failed to delete report")]
    ELSE [a EXCEPT !.reports = FilterOut(d.closure, d.id)]

\* The tables a visit of the dashboard can find.
StoredRecords == <<ValidForm, ApiRecord, ValidBody>>

StoredTables ==
    { [i \in 1..n |-> NewRow(StoredRecords[i], i)] : n \in {0, 2, 3} }

InitAdmin ==
    /\ genAI \in BOOLEAN
    /\ req = [r \in Slots |-> Idle]
    /\ reports \in StoredTables
    /\ nextId = Len(reports) + 1
    /\ call = NoCall
    /\ admins \in {{}, {AdminRow("u1")}}
    /\ audit = {}
    /\ admin = Unmounted
    /\ boot = NotStarted

\* useEffect on mount: checkAuth() asks for the session.
Mount ==
    /\ admin.pc = "unmounted"
    /\ admin' = [admin EXCEPT !.pc = "session"]
    /\ UNCHANGED <<genAI, req, reports, nextId, call, admins, audit, boot>>

\* getSession() resolves with a session or none.
GetSessionResolves(session) ==
    /\ admin.pc = "session"
    /\ admin' = CheckAuthSession(admin, session)
    /\ UNCHANGED <<genAI, req, reports, nextId, call, admins, audit, boot>>

\* getSession() rejects.
GetSessionRejects ==
    /\ admin.pc = "session"
    /\ admin' = CheckAuthCatch(admin, "auth_error")
    /\ UNCHANGED <<genAI, req, reports, nextId, call, admins, audit, boot>>

\* select id from admins where id = session.user.id, maybeSingle().
AdminLookupResolves ==
    /\ admin.pc = "lookup"
    /\ LET found == \E row \in admins :
                       /\ row.id = admin.session
                       /\ Allowed("admins", "SELECT", admin.session, row, admins)
       IN  admin' = CheckAuthLookup(admin, found, FALSE)
    /\ UNCHANGED <<genAI, req, reports, nextId, call, admins, audit, boot>>

AdminLookupFails ==
    /\ admin.pc = "lookup"
    /\ admin' = CheckAuthLookup(admin, FALSE, TRUE)
    /\ UNCHANGED <<genAI, req, reports, nextId, call, admins, audit, boot>>

\* insert into admins ... select().single() as the session user.
AdminRegisterResolves ==
    /\ admin.pc = "register"
    /\ LET row == AdminRow(admin.session)
           ok  == /\ Allowed("admins", "INSERT", admin.session, row, admins)
                  /\ Allowed("admins", "SELECT", admin.session, row, admins)
                  /\ ~HasAdminRow(admin.session)
       IN  /\ admins' = IF ok THEN admins \cup {row} ELSE admins
           /\ admin' = CheckAuthRegister(admin, ~ok)
    /\ UNCHANGED <<genAI, req, reports, nextId, call, audit, boot>>

AdminRegisterFails ==
    /\ admin.pc = "register"
    /\ admin' = CheckAuthRegister(admin, TRUE)
    /\ UNCHANGED <<genAI, req, reports, nextId, call, admins, audit, boot>>

\* select * from reports order by created_at desc, as the session user.
FetchReportsResolves ==
    /\ admin.pc = "fetching"
    /\ LET visible == SelectSeq(reports,
                         LAMBDA row : Allowed("reports", "SELECT", admin.session, row, admins))
       IN  admin' = FetchReportsSettled(admin, OrderByCreatedAtDesc(visible), FALSE, FALSE)
    /\ UNCHANGED <<genAI, req, reports, nextId, call, admins, audit, boot>>

FetchReportsFails(isError) ==
    /\ admin.pc = "fetching"
    /\ admin' = FetchReportsSettled(admin, <<>>, TRUE, isError)
    /\ UNCHANGED <<genAI, req, reports, nextId, call, admins, audit, boot>>

\* A click on Delete of a displayed report: handleDelete(id) of the
\* current render sends the delete.
ClickDelete(id) ==
    /\ admin.pc = "ready"
    /\ admin.clicks < MaxDeletes
    /\ id \in Ids(admin.reports)
    /\ admin' = [admin EXCEPT !.clicks = @ + 1,
                              !.deletes = @ \cup {[id |-> id, closure |-> admin.reports]}]
    /\ UNCHANGED <<genAI, req, reports, nextId, call, admins, audit, boot>>

\* delete from reports where id = ... returns without error; the rows the
\* DELETE policy lets the session user delete are gone.
DeleteResolves(d) ==
    /\ d \in admin.deletes
    /\ reports' = SelectSeq(reports,
                     LAMBDA row : ~(/\ row["id"] = JNum(d.id)
                                    /\ Allowed("reports", "DELETE", admin.session, row, admins)))
    /\ LET a == [admin EXCEPT !.deletes = @ \ {d}, !.deleted = @ \cup {d.id}]
       IN  admin' = IF admin.pc = "ready" THEN HandleDeleteSettled(a, d, FALSE, FALSE)
                    ELSE a
    /\ UNCHANGED <<genAI, req, nextId, call, admins, audit, boot>>

\* The delete returns an error.
DeleteFails(d, isError) ==
    /\ d \in admin.deletes
    /\ LET a    == [admin EXCEPT !.deletes = @ \ {d}]
           next == IF admin.pc = "ready" THEN HandleDeleteSettled(a, d, TRUE, isError)
                   ELSE a
       IN  admin' = [next EXCEPT !.touched =
                        IF next.reports # admin.reports THEN @ \cup {d.id} ELSE @]
    /\ UNCHANGED <<genAI, req, reports, nextId, call, admins, audit, boot>>

\* handleLogout: signOut() and navigate('/login').
Logout ==
    /\ admin.pc = "ready"
    /\ admin' = [admin EXCEPT !.pc = "login", !.location = "/login",
                              !.events = Append(@, "logout")]
    /\ UNCHANGED <<genAI, req, reports, nextId, call, admins, audit, boot>>

\* The dashboard, with the server, the public form and direct calls of the
\* storage API going on beside it.
NextAdmin ==
    \/ Mount
    \/ \E session \in {"none"} \cup Users : GetSessionResolves(session)
    \/ GetSessionRejects
    \/ AdminLookupResolves
    \/ AdminLookupFails
    \/ AdminRegisterResolves
    \/ AdminRegisterFails
    \/ FetchReportsResolves
    \/ \E isError \in BOOLEAN : FetchReportsFails(isError)
    \/ \E id \in Ids(admin.reports) : ClickDelete(id)
    \/ \E d \in admin.deletes : DeleteResolves(d)
    \/ \E d \in admin.deletes, isError \in BOOLEAN : DeleteFails(d, isError)
    \/ Logout
    \/ \E u \in Identities, id \in Ids(reports) : ApiUpdateReport(u, id)
    \/ PostReports(1, ValidBody)
    \/ \E answer \in HandlerAnswers : ReportsModelSettles(1, answer)
    \/ ReportsInsertSucceeds(1)
    \/ ReportsInsertFails(1)
    \/ PostVerify(1, [description |-> JStr("He hit me.")])
    \/ \E answer \in HandlerAnswers : VerifyModelSettles(1, answer)
    \/ FormSubmit(1, ValidForm, FALSE)
    \/ FormFetchRejects(1)
    \/ FormVerifyArrives(1)
    \/ FormVerifyResponds(1)
    \/ FormInsertSucceeds(1)
    \/ FormInsertFails(1)

SpecAdmin == InitAdmin /\ [][NextAdmin]_vars

(***************************************************************************)
(* Properties                                                              *)
(***************************************************************************)
Count(events, e) == Cardinality({i \in 1..Len(events) : events[i] = e})
Has(events, e) == \E i \in 1..Len(events) : events[i] = e
Pos(events, e) == CHOOSE i \in 1..Len(events) : events[i] = e

ReportsSlots == {r \in Slots : req[r].kind = "reports"}
VerifySlots == {r \in Slots : req[r].kind \in {"verify", "form"}}

\* How verifyReport ended for the request of slot r.
VerifyRaised(r) ==
    req[r].outcome.called /\ req[r].outcome.settled /\ req[r].outcome.result.raised
VerifyReturned(r) ==
    req[r].outcome.called /\ req[r].outcome.settled /\ ~req[r].outcome.result.raised

\* The storage insert of slot r was attempted, failed, succeeded.
InsertAttempted(r) == Has(req[r].events, "insert")
InsertFailed(r) == Has(req[r].events, "insert_settled") /\ req[r].rowId = 0
InsertSucceeded(r) == req[r].rowId # 0

RowOf(r) == CHOOSE i \in 1..Len(reports) : reports[i]["id"] = JNum(req[r].rowId)

\* The fields of a payload that ReportSchema rejects, read off the
\* constraints of the schema.
SatisfiesConstraint(key, value) ==
    /\ value.t = "string"
    /\ CASE key = "type" -> value.s \in ReportTypes
         [] key = "description" -> Len(value.s) >= 10 /\ Len(value.s) <= 1000
         [] key = "location" -> Len(value.s) >= 3 /\ Len(value.s) <= 200
         [] key = "date" -> MatchesDateRegex(value.s)

ViolatedFields(body) ==
    {k \in {"type", "description", "location", "date"} :
        ~SatisfiesConstraint(k, Field(body, k))}

\* C1: in POST /reports with a valid payload and a configured model, when
\* verifyReport raises the handler still attempts the insert, with
\* verified=false, verification_result="Verification failed" and
\* severity="medium"; the response is 201 when that insert succeeds, and an
\* error status only when the insert itself failed.
C1_VerificationFailureStillSubmits ==
    \A r \in ReportsSlots :
        VerifyRaised(r) =>
            /\ genAI
            /\ InsertAttempted(r)
            /\ req[r].record["verified"] = JBool(FALSE)
            /\ "verification_result" \in DOMAIN req[r].record
            /\ req[r].record["verification_result"] = JStr("Verification failed")
            /\ req[r].record["severity"] = JStr("medium")
            /\ InsertSucceeded(r) => req[r].response.status = 201
            /\ req[r].response.status >= 400 => InsertFailed(r)

C1_Witness ==
    \E r \in ReportsSlots :
        /\ VerifyRaised(r)
        /\ InsertSucceeded(r)
        /\ req[r].response.status = 201
        /\ reports[RowOf(r)]["verification_result"] = JStr("Verification failed")

\* The trust fields POST /reports is to write for an outcome of the
\* verification step.
ExpectedTrust(r) ==
    IF VerifyReturned(r)
    THEN [verified |-> JBool(TRUE),
          verification_result |-> req[r].outcome.result.assessment,
          severity |-> JStr(req[r].outcome.result.severity)]
    ELSE IF VerifyRaised(r)
    THEN [verified |-> JBool(FALSE),
          verification_result |-> JStr("Verification failed"),
          severity |-> JStr("medium")]
    ELSE [verified |-> JBool(FALSE), severity |-> JStr("medium")]

TrustKeys == {"verified", "verification_result", "severity"}
TrustOf(record) == [k \in DOMAIN record \cap TrustKeys |-> record[k]]

\* C2: every record POST /reports inserts has verified=true exactly when
\* verifyReport was called for the request and returned without raising,
\* and then carries the returned assessment and severity; its verified,
\* verification_result and severity depend on the verification outcome
\* only, whatever else the request body holds; the stored row has them too.
C2_VerifiedIffVerifyReturned ==
    \A r \in ReportsSlots :
        InsertAttempted(r) =>
            /\ req[r].record["verified"] = JBool(TRUE) <=> VerifyReturned(r)
            /\ TrustOf(req[r].record) = ExpectedTrust(r)
            /\ InsertSucceeded(r) =>
                  \A k \in DOMAIN ExpectedTrust(r) :
                      reports[RowOf(r)][k] = ExpectedTrust(r)[k]

C2_Witness ==
    \E r \in ReportsSlots :
        /\ Field(req[r].body, "verified") = JBool(TRUE)
        /\ Field(req[r].body, "severity") = JStr("critical")
        /\ VerifyReturned(r)
        /\ InsertSucceeded(r)
        /\ reports[RowOf(r)]["severity"] = JStr("high")
        /\ reports[RowOf(r)]["verified"] = JBool(TRUE)

\* C3: every row of the reports table, whichever insert path wrote it, has
\* a severity that is one of low, medium, high.
C3_SeverityAlwaysValid ==
    \A i \in 1..Len(reports) :
        /\ reports[i]["severity"].t = "string"
        /\ reports[i]["severity"].s \in Severities

\* C4: a POST /reports payload that violates a constraint of ReportSchema
\* is answered 400 "Validation error" with an errors entry for every
\* violated field, without a model call and without an insert.
C4_ValidationErrorListsEveryField ==
    /\ \A r \in ReportsSlots :
          ViolatedFields(req[r].body) # {} =>
              /\ req[r].response.status = 400
              /\ req[r].response.message = "Validation error"
              /\ \A k \in ViolatedFields(req[r].body) :
                    \E i \in 1..Len(req[r].response.errors) :
                        req[r].response.errors[i].path = k
              /\ ~Has(req[r].events, "model")
              /\ ~InsertAttempted(r)
              /\ req[r].rowId = 0
    /\ Len(reports) = Cardinality({r \in Slots : InsertSucceeded(r)})

C4_Witness ==
    \E r \in ReportsSlots :
        /\ Cardinality(ViolatedFields(req[r].body)) = 4
        /\ "type" \in DOMAIN req[r].body
        /\ req[r].response.status = 400
        /\ Len(req[r].response.errors) = 4

\* C5: without a configured model client, POST /reports with a valid
\* payload makes no model call, inserts the record with verified=false, no
\* verification_result and severity="medium", and answers 201 when the
\* insert succeeds.
C5_NoModelConfigured ==
    ~genAI =>
        \A r \in ReportsSlots :
            ViolatedFields(req[r].body) = {} =>
                /\ ~Has(req[r].events, "model")
                /\ ~req[r].outcome.called
                /\ InsertAttempted(r)
                /\ req[r].record["verified"] = JBool(FALSE)
                /\ "verification_result" \notin DOMAIN req[r].record
                /\ req[r].record["severity"] = JStr("medium")
                /\ InsertSucceeded(r) =>
                      /\ req[r].response.status = 201
                      /\ reports[RowOf(r)]["verification_result"] = JNull

C5_Witness ==
    /\ ~genAI
    /\ \E r \in ReportsSlots :
          /\ req[r].response.status = 201
          /\ reports[RowOf(r)]["severity"] = JStr("medium")
          /\ reports[RowOf(r)]["verified"] = JBool(FALSE)

\* C6: when the insert of POST /reports reports an error the response is
\* 500 "Internal server error", the request leaves no row, and neither the
\* insert nor the model call is made a second time; a 201 is sent only
\* after the insert succeeded, and its data is the row storage returned.
C6_StorageErrorIsHardFailure ==
    /\ \A r \in ReportsSlots :
          /\ InsertFailed(r) =>
                /\ req[r].response = InternalError
                /\ Count(req[r].events, "insert") = 1
                /\ Count(req[r].events, "model") <= 1
                /\ \A i \in 1..Len(reports) :
                      \E q \in Slots \ {r} : reports[i]["id"] = JNum(req[q].rowId)
          /\ req[r].response.status = 201 =>
                /\ InsertSucceeded(r)
                /\ Has(req[r].events, "insert_settled")
                /\ req[r].response.data = reports[RowOf(r)]
    /\ Len(reports) = Cardinality({r \in Slots : InsertSucceeded(r)})

C6_Witness ==
    \E r, q \in ReportsSlots :
        /\ InsertFailed(r)
        /\ StorageAccepts(req[r].record)
        /\ req[r].response.status = 500
        /\ req[q].response.status = 201

\* C7: one POST /reports request makes at most one model call and at most
\* one insert; the insert starts only once the verification step has
\* settled, never while the model call is pending, and the response is
\* sent only after the insert has settled.
C7_SequentialCallThenInsert ==
    \A r \in ReportsSlots :
        LET events == req[r].events IN
        /\ Count(events, "model") <= 1
        /\ Count(events, "insert") <= 1
        /\ Count(events, "respond") <= 1
        /\ Has(events, "insert") /\ Has(events, "model") =>
              /\ Has(events, "model_settled")
              /\ Pos(events, "model") < Pos(events, "model_settled")
              /\ Pos(events, "model_settled") < Pos(events, "insert")
              /\ req[r].outcome.settled
        /\ Has(events, "insert") /\ Has(events, "respond") =>
              /\ Has(events, "insert_settled")
              /\ Pos(events, "insert") < Pos(events, "insert_settled")
              /\ Pos(events, "insert_settled") < Pos(events, "respond")
        /\ req[r].pc = "model" => ~Has(events, "insert")
        /\ req[r].pc = "insert" => ~Has(events, "respond")

C7_Witness ==
    \E r \in ReportsSlots :
        req[r].events = <<"model", "model_settled", "insert", "insert_settled", "respond">>

\* POST /verify takes a description for missing when the body has none or
\* null, and for blank when it is a string of white space only.
MissingOrBlank(body) ==
    LET description == Field(body, "description") IN
    \/ description.t \in {"undefined", "null"}
    \/ description.t = "string" /\ Trim(description.s) = ""

\* C8: POST /verify answers 400 for a missing or blank description, also
\* without a configured model; otherwise 503 without a configured model;
\* otherwise 200 with what verifyReport returned, or 500 when verifyReport
\* raised; it never writes to storage.
C8_VerifyPrecedence ==
    \A r \in VerifySlots :
        req[r].response # NoResponse =>
            /\ IF MissingOrBlank(req[r].body) THEN req[r].response.status = 400
               ELSE IF ~genAI THEN req[r].response.status = 503
               ELSE /\ req[r].outcome.called
                    /\ req[r].outcome.settled
                    /\ IF req[r].outcome.result.raised
                       THEN req[r].response.status = 500
                       ELSE /\ req[r].response.status = 200
                            /\ req[r].response.data =
                                  [verified |-> TRUE,
                                   verificationResult |-> req[r].outcome.result.assessment,
                                   severity |-> req[r].outcome.result.severity]
            /\ req[r].kind = "verify" => ~InsertAttempted(r) /\ req[r].rowId = 0

\* C9: verifyReport either raises or returns a severity that is one of
\* low, medium, high; it raises exactly when no client is configured, the
\* model call rejects or the text is empty.
C9_SeverityInRangeOrRaise ==
    call.pc = "done" =>
        /\ call.result.raised \/ call.result.severity \in {"low", "medium", "high"}
        /\ call.result.raised <=>
              (~genAI \/ call.answer.kind = "reject" \/ call.answer.text = "")

C9_Witness ==
    /\ call.pc = "done"
    /\ genAI
    /\ call.answer = Returns("{\"assessment\":\"X\",\"severity\":\"critical\"}")
    /\ ~call.result.raised
    /\ call.result.severity = "medium"

\* Whether a is b up to the case of its letters.
EqualsIgnoringCase(a, b) ==
    /\ Len(a) = Len(b)
    /\ \A i \in 1..Len(a) :
          \/ Ch(a, i) = Ch(b, i)
          \/ Ch(a, i) \in DOMAIN UpperToLower /\ UpperToLower[Ch(a, i)] = Ch(b, i)

\* The severity of low, medium, high that the text of a call names, "" when
\* the text is not a JSON object with such a severity.
NamedSeverity(answer) ==
    IF answer.kind # "text" \/ answer.text = "" THEN ""
    ELSE LET parsed == JsonParse(Trim(answer.text)) IN
         IF ~parsed.ok \/ parsed.v.t # "object" THEN ""
         ELSE LET raw == GetProp(parsed.v, "severity") IN
              IF raw.t = "string"
                 /\ \E v \in {"low", "medium", "high"} : EqualsIgnoringCase(raw.s, v)
              THEN CHOOSE v \in {"low", "medium", "high"} : EqualsIgnoringCase(raw.s, v)
              ELSE ""

ParsedAssessment(answer) == GetProp(JsonParse(Trim(answer.text)).v, "assessment")

\* C10 as stated: for a JSON object text with a severity of low, medium,
\* high in any letter case, verifyReport returns that severity in lower
\* case with the parsed assessment, or "Assessment unavailable" when the
\* assessment is missing (absent or null) or empty.
C10_AsStated ==
    call.pc = "done" /\ genAI /\ NamedSeverity(call.answer) # "" =>
        /\ ~call.result.raised
        /\ call.result.severity = NamedSeverity(call.answer)
        /\ call.result.assessment =
              IF ParsedAssessment(call.answer).t \in {"undefined", "null"}
                 \/ ParsedAssessment(call.answer) = JStr("")
              THEN JStr("Assessment unavailable")
              ELSE ParsedAssessment(call.answer)

\* C10, amended: ... or "Assessment unavailable" when the assessment is
\* missing or falsy (null, the empty string, 0, false).
C10_NormalizedSeverityAndAssessment ==
    call.pc = "done" /\ genAI /\ NamedSeverity(call.answer) # "" =>
        /\ ~call.result.raised
        /\ call.result.severity = NamedSeverity(call.answer)
        /\ call.result.assessment =
              IF \/ ParsedAssessment(call.answer).t \in {"undefined", "null"}
                 \/ ParsedAssessment(call.answer) \in {JStr(""), JNum(0), JBool(FALSE)}
              THEN JStr("Assessment unavailable")
              ELSE ParsedAssessment(call.answer)

C10_Witness ==
    /\ call.pc = "done"
    /\ genAI
    /\ call.answer = Returns("{\"assessment\":\"X\",\"severity\":\"HIGH\"}")
    /\ call.result = Returned(JStr("X"), "high")

\* C11: for a non-empty text that is not JSON, or is JSON without a
\* severity that is a string naming low, medium or high, verifyReport does
\* not raise and returns the trimmed text as assessment with severity
\* medium.
C11_MalformedTextFallsBack ==
    (/\ call.pc = "done"
     /\ genAI
     /\ call.answer.kind = "text"
     /\ call.answer.text # ""
     /\ NamedSeverity(call.answer) = "") =>
        /\ ~call.result.raised
        /\ call.result.severity = "medium"
        /\ call.result.assessment.t = "string"
        /\ call.result.assessment.s = Trim(call.answer.text)
        /\ Len(call.result.assessment.s) = 0
              \/ (~IsTrimSpace(Ch(call.result.assessment.s, 1))
                  /\ ~IsTrimSpace(Ch(call.result.assessment.s,
                                     Len(call.result.assessment.s))))

C11_Witness ==
    /\ call.pc = "done"
    /\ genAI
    /\ call.answer = Returns("  looks concerning \n")
    /\ call.result = Returned(JStr("looks concerning"), "medium")

\* A row without the two columns storage assigns.
Content(row) == [k \in DOMAIN row \ {"id", "created_at"} |-> row[k]]

\* A response without the id and timestamp of the row it carries.
ResponseContent(response) ==
    IF response.status = 201
    THEN [response EXCEPT !.data = Content(response.data)]
    ELSE response

\* The route a slot's request went to.
Route(r) == IF req[r].kind = "reports" THEN "/reports" ELSE "/verify"

\* C12: two requests to the same route with the same body fare alike at
\* every stage, whatever else the server handled before or meanwhile:
\* they make the same first move (validation answer, model call or
\* insert); given the same model answer they build the same record and
\* the same POST /verify response; given the same storage answer too they
\* send the same POST /reports response.
C12_RequestsAreIndependent ==
    \A r, q \in Slots :
        (/\ req[r].kind \in {"reports", "verify", "form"}
         /\ req[q].kind \in {"reports", "verify", "form"}
         /\ Route(r) = Route(q)
         /\ req[r].body = req[q].body
         /\ req[r].events # <<>>
         /\ req[q].events # <<>>) =>
            /\ req[r].events[1] = req[q].events[1]
            /\ req[r].outcome.called = req[q].outcome.called
            /\ (/\ req[r].answer = req[q].answer
                /\ Route(r) = "/verify"
                /\ req[r].pc # "model"
                /\ req[q].pc # "model") =>
                  /\ req[r].response = req[q].response
                  /\ req[r].outcome = req[q].outcome
            /\ (/\ req[r].answer = req[q].answer
                /\ Route(r) = "/reports"
                /\ req[r].pc # "model"
                /\ req[q].pc # "model") =>
                  /\ req[r].record = req[q].record
                  /\ (/\ req[r].pc = "done"
                      /\ req[q].pc = "done"
                      /\ InsertSucceeded(r) = InsertSucceeded(q)) =>
                        ResponseContent(req[r].response) =
                            ResponseContent(req[q].response)

C12_Witness ==
    \E r, q \in Slots :
        /\ r # q
        /\ req[r].kind = "reports"
        /\ req[q].kind = "reports"
        /\ req[r].body = req[q].body
        /\ req[r].answer = req[q].answer
        /\ req[r].answer.kind = "text"
        /\ req[r].response.status = 201
        /\ req[q].response.status = 201
        /\ req[r].response.data # req[q].response.data

FormSlots == {r \in Slots : req[r].kind = "form"}

\* C14: a submission of the public form ends without an insert only for a
\* validation problem (POST /verify answered 400) or a storage problem (the
\* image upload or the insert failed); a POST /verify that answers 5xx, or
\* a backend that cannot be reached, does not keep the report from being
\* inserted.
C14_FormAbsorbsVerificationFailure ==
    \A r \in FormSlots :
        req[r].pc = "done" =>
            /\ req[r].error # "" =>
                  \/ req[r].response.status = 400
                  \/ req[r].error = "Failed to upload image"
                  \/ InsertFailed(r)
            /\ (req[r].response.status >= 500 \/ req[r].response = NoResponse) =>
                  InsertAttempted(r)

\* C15: reports are selected or deleted only by a signed-in identity that
\* has an admins row at that moment; anyone may insert a report; an
\* identity without an admins row has never read or deleted a report; an
\* admins row is inserted only by the signed-in identity whose id it
\* carries.
C15_OnlyAdminsReadOrDelete ==
    /\ \A e \in audit :
          /\ e.op \in {"select", "delete"} => e.who \in Users /\ e.admin
          /\ e.op # "insert_denied"
          /\ e.op = "insert_admin" => e.who \in Users /\ e.who = e.uid
    /\ \A u \in Identities :
          (~\E a \in admins : a.id = u) =>
              ~\E e \in audit : e.who = u /\ e.op \in {"select", "delete"}
    /\ \A a \in admins :
          /\ a.id \in Users
          /\ \E e \in audit : e.op = "insert_admin" /\ e.who = a.id /\ e.uid = a.id

C15_Witness ==
    /\ \E e \in audit : e.op = "insert" /\ e.who = Anon
    /\ \E e \in audit : e.op = "select" /\ e.who = "u1"
    /\ \E e \in audit : e.op = "delete" /\ e.who = "u2"
    /\ Denied \in audit
    /\ Len(reports) = 1

\* C16: startServer tries 5000, 5001, ... in increasing order and moves on
\* only after EADDRINUSE; it stops at the first successful listen, so the
\* server listens on exactly one port, the lowest free one; any other error,
\* or all ten ports in use, ends the process with exit code 1; there are
\* never more than 10 listen attempts.
LowestFree(ports) ==
    CHOOSE p \in Ports : ports[p] = "free" /\ \A q \in Ports : q < p => ports[q] # "free"

C16_LowestFreePortOrExit ==
    LET tried == boot.attempts
        n     == Len(tried)
    IN  /\ n <= MAX_RETRIES
        /\ \A k \in 1..n : tried[k].port = BASE_PORT + k - 1
        /\ \A k \in 1..n : k < n => tried[k].result = "EADDRINUSE"
        /\ Cardinality(boot.listening) <= 1
        /\ boot.pc \in {"none", "loop"} =>
              /\ boot.listening = {}
              /\ \A k \in 1..n : tried[k].result = "EADDRINUSE"
              /\ n = boot.i /\ n < MAX_RETRIES
        /\ boot.pc = "listening" =>
              /\ n >= 1 /\ tried[n].result = "listening"
              /\ boot.listening = {tried[n].port}
              /\ tried[n].port = LowestFree(boot.ports)
              /\ boot.exitCode = -1
        /\ boot.pc = "exited" =>
              /\ boot.exitCode = 1
              /\ boot.listening = {}
              /\ n >= 1
              /\ \/ tried[n].result \notin {"EADDRINUSE", "listening"}
                 \/ n = MAX_RETRIES /\ \A p \in Ports : boot.ports[p] = "EADDRINUSE"
        /\ (\A p \in Ports : boot.ports[p] = "EADDRINUSE") => boot.pc # "listening"
        /\ (boot.pc \in {"listening", "exited"} /\ n >= 1 /\ tried[n].result = "EACCES") =>
              boot.pc = "exited"

C16_Witness ==
    /\ boot.pc = "listening"
    /\ boot.listening = {BASE_PORT + 2}
    /\ Len(boot.attempts) = 3
    /\ boot.ports[BASE_PORT + 3] = "free"

\* C17: fetchReports is invoked only after a session exists and the session
\* user's admins row was found or inserted; with no session, an error of
\* the admins lookup or a failed self-registration the user is sent to
\* /login and no reports are fetched in that run.
Before(events, first, then) ==
    \E i, j \in 1..Len(events) : i < j /\ events[i] = first /\ events[j] = then

Occurred(events, event) == \E i \in 1..Len(events) : events[i] = event

C17_FetchOnlyForAdmins ==
    LET events == admin.events
    IN  /\ (Occurred(events, "fetch") \/ admin.pc \in {"fetching", "ready"}
            \/ admin.fetched # {} \/ ~admin.loading) =>
              /\ Occurred(events, "fetch")
              /\ admin.session \in Users
              /\ Before(events, "session", "fetch")
              /\ \/ Before(events, "admin_found", "fetch")
                 \/ Before(events, "admin_inserted", "fetch")
              /\ HasAdminRow(admin.session)
        /\ \A failure \in {"no_session", "lookup_error", "register_failed"} :
              Occurred(events, failure) =>
                  /\ admin.location = "/login"
                  /\ admin.pc = "login"
                  /\ ~Occurred(events, "fetch")
                  /\ admin.fetched = {} /\ admin.reports = <<>> /\ admin.loading

C17_Witness ==
    /\ admin.pc = "ready"
    /\ Occurred(admin.events, "admin_inserted")
    /\ Len(admin.reports) = 3
    /\ admin.session = "u2"

\* C18: after any sequence of delete requests, overlapping or not, the
\* displayed list holds no report whose storage delete succeeded and every
\* fetched report whose delete failed or was never requested; a failed
\* delete leaves the list as it was.
C18_ListMatchesDeletes ==
    admin.pc = "ready" =>
        /\ Ids(admin.reports) \cap admin.deleted = {}
        /\ (admin.fetched \ admin.deleted) \subseteq Ids(admin.reports)
        /\ admin.touched = {}

\* C13: a stored report keeps every field for as long as it is stored: the
\* only transitions of a row are its creation and its deletion.
C13_StoredReportsAreImmutable ==
    [][\A i \in 1..Len(reports) : \A j \in 1..Len(reports') :
          reports[i]["id"] = reports'[j]["id"] => reports[i] = reports'[j]]_vars

C13_Witness ==
    /\ Len(reports) = 2
    /\ Ids(reports) = {2, 4}
    /\ admin.deleted = {1, 3}
    /\ Denied \in audit

====
